---- MODULE Spec2Model ----
(***************************************************************************)
(* Stock-correlation network scripts: data_fetch.py, network_construction  *)
(* .py, parameter.py, graph_analysis.py, sectors.py, color_node.py and     *)
(* sector_plot.py.  Each script is a linear batch program; the scripts     *)
(* communicate only through files (the price CSV, the pickled graph, the   *)
(* sector CSV, the plot images).                                           *)
(*                                                                         *)
(* Numbers.  Correlations and thresholds are floats in the scripts; here   *)
(* they are integers in units of 0.01 (0.5 is 50, -1 is -100), which keeps *)
(* the order the comparison `correlation >= theta` depends on.  The float  *)
(* NaN is the value NaN below, and every comparison with it is false.      *)
(* Ratios (mean degree, clustering, S) are exact fractions <<num, den>>.   *)
(***************************************************************************)
EXTENDS Integers, Sequences, FiniteSets, TLC

VARIABLES
    price_csv,               \* nifty500_adj_close_2023_2024.csv
    graph_pickle,            \* nifty500_network.gpickle
    sector_csv,              \* sector_analysis.csv
    plots,                   \* the .png files written so far
    runs,                    \* scripts started so far
    fetch_log,               \* how the list fetches of data_fetch.py ended so far
    script,                  \* the script that is running ("none": the shell)
    pc,                      \* its position
    corr_matrix,             \* corr_matrix of the running script
    theta,                   \* theta of the running script
    G,                       \* G (G_theta in parameter.py)
    avg_degree,              \* network_construction.py: avg_degree
    avg_degrees,             \* parameter.py: the three result lists
    avg_clusterings,
    largest_component_sizes,
    symbols_ns,              \* data_fetch.py: symbols_ns
    next_symbol,             \* data_fetch.py: position of the download loop
    attempted,               \* data_fetch.py: the calls of yf.download and their outcomes
    all_price_data,          \* data_fetch.py: all_price_data
    sector_map,              \* sectors.py: sector_map
    sector_analysis          \* sectors.py: sector_analysis

files == <<price_csv, graph_pickle, sector_csv, plots>>
sweep_lists == <<avg_degrees, avg_clusterings, largest_component_sizes>>
fetch_memory == <<symbols_ns, next_symbol, attempted, all_price_data>>
sector_memory == <<sector_map, sector_analysis>>
memory == <<corr_matrix, theta, G, avg_degree, sweep_lists, fetch_memory, sector_memory>>
history == <<runs, fetch_log>>
vars == <<files, history, script, pc, memory>>

(***************************************************************************)
(* Bounds of the model.                                                    *)
(***************************************************************************)
MaxSym == 4        \* columns of a price file given as input
MaxListed == 2     \* symbols of the downloaded Nifty 500 list
MaxRuns == 3       \* scripts started in one behaviour

SymbolNames == <<"S1", "S2", "S3", "S4", "S5", "S6">>

(***************************************************************************)
(* Values.                                                                 *)
(***************************************************************************)
NaN == 999

\* symbol + ".NS"
Ticker(symbol) == symbol \o ".NS"

Range(s) == {s[k] : k \in DOMAIN s}

Frac(n, d) == <<n, d>>
FracEq(a, b) == a[1] * b[2] = b[1] * a[2]
FracLE(a, b) == a[1] * b[2] <= b[1] * a[2]

\* a ratio in lowest terms (the same number)
RECURSIVE GCD(_, _)
GCD(a, b) == IF b = 0 THEN a ELSE GCD(b, a % b)
Reduce(f) ==
    LET g == GCD(f[1], f[2])
    IN  IF g = 0 THEN f ELSE <<f[1] \div g, f[2] \div g>>

FracAdd(a, b) == Reduce(<<a[1] * b[2] + b[1] * a[2], a[2] * b[2]>>)

\* Python's float comparison a >= b: false when either side is NaN.
GreaterEqual(a, b) == a # NaN /\ b # NaN /\ a >= b

(***************************************************************************)
(* nx.Graph: a node set and a symmetric adjacency, with the edge attribute *)
(* `weight` where add_edge was given one.                                  *)
(***************************************************************************)
EmptyGraph == [nodes |-> {}, adj |-> <<>>, weight |-> <<>>]

AddNodesFrom(g, names) ==
    LET ns == g.nodes \cup Range(names)
    IN  [g EXCEPT !.nodes = ns,
                  !.adj = [n \in ns |-> IF n \in g.nodes THEN g.adj[n] ELSE {}]]

AddEdge(g, u, v) ==
    LET ns == g.nodes \cup {u, v}
        old(n) == IF n \in g.nodes THEN g.adj[n] ELSE {}
    IN  [g EXCEPT !.nodes = ns,
                  !.adj = [n \in ns |-> old(n) \cup (IF n = u THEN {v} ELSE {})
                                               \cup (IF n = v THEN {u} ELSE {})]]

AddWeightedEdge(g, u, v, w) ==
    LET h == AddEdge(g, u, v)
        keys == DOMAIN g.weight \cup {{u, v}}
    IN  [h EXCEPT !.weight = [e \in keys |-> IF e = {u, v} THEN w ELSE g.weight[e]]]

\* G.edges(): each edge once, as the set of its end points
Edges(g) == UNION {{{u, v} : v \in g.adj[u]} : u \in g.nodes}

NumberOfNodes(g) == Cardinality(g.nodes)

\* G.degree(n): a self-loop counts twice
Degree(g, n) == Cardinality(g.adj[n]) + (IF n \in g.adj[n] THEN 1 ELSE 0)

RECURSIVE SumDegrees(_, _)
SumDegrees(g, S) ==
    IF S = {} THEN 0
    ELSE LET n == CHOOSE x \in S : TRUE
         IN  Degree(g, n) + SumDegrees(g, S \ {n})

\* G.number_of_edges(): sum of the degrees / 2
NumberOfEdges(g) == SumDegrees(g, g.nodes) \div 2

\* nx.clustering(G)[v]: t / (d * (d - 1)) with vs = set(G[v]) - {v}, d = len(vs)
\* and t = sum(len(vs & (set(G[w]) - {w})) for w in vs); 0 when t = 0.
RECURSIVE SumCommon(_, _, _)
SumCommon(g, vs, W) ==
    IF W = {} THEN 0
    ELSE LET w == CHOOSE x \in W : TRUE
         IN  Cardinality(vs \cap (g.adj[w] \ {w})) + SumCommon(g, vs, W \ {w})

Clustering(g, v) ==
    LET vs == g.adj[v] \ {v}
        d == Cardinality(vs)
        t == SumCommon(g, vs, vs)
    IN  IF t = 0 THEN Frac(0, 1) ELSE Frac(t, d * (d - 1))

RECURSIVE SumClustering(_, _)
SumClustering(g, S) ==
    IF S = {} THEN Frac(0, 1)
    ELSE LET n == CHOOSE x \in S : TRUE
         IN  FracAdd(Clustering(g, n), SumClustering(g, S \ {n}))

\* nx.average_clustering(G) is sum(c) / len(c) over c = clustering(G).values():
\* it raises ZeroDivisionError on a graph without nodes.
AverageClusteringRaises(g) == NumberOfNodes(g) = 0

AverageClustering(g) ==
    LET total == SumClustering(g, g.nodes)
    IN  Frac(total[1], total[2] * NumberOfNodes(g))

\* nx.connected_components(G)
RECURSIVE Reach(_, _)
Reach(g, S) ==
    LET T == S \cup UNION {g.adj[n] : n \in S}
    IN  IF T = S THEN S ELSE Reach(g, T)

ConnectedComponents(g) == {Reach(g, {n}) : n \in g.nodes}

\* len(max(components, key=len))
LargestCompSize(components) ==
    CHOOSE k \in {Cardinality(c) : c \in components} :
        \A c \in components : Cardinality(c) <= k

(***************************************************************************)
(* The correlation matrix: its column labels and its cells by position     *)
(* (corr_matrix.columns[i], corr_matrix.iloc[i, j]), positions from 1.     *)
(***************************************************************************)
NoMatrix == [columns |-> <<>>, cells |-> <<>>]

NCols(cm) == Len(cm.columns)

\* `correlation > theta`
PassesThresholdStrict(correlation, th) ==
    correlation # NaN /\ th # NaN /\ correlation > th

\* `correlation <= theta`
PassesThresholdFlipped(correlation, th) == GreaterEqual(th, correlation)

\* `not (correlation < theta)`
PassesThresholdNotLess(correlation, th) ==
    ~(correlation # NaN /\ th # NaN /\ correlation < th)

\* the test of the double loop: `correlation >= theta`
PassesThreshold(correlation, th) == GreaterEqual(correlation, th)

\* range(i, N)
InnerStartSelf(i) == i

\* first j of the inner loop: range(i + 1, N)
InnerStart(i) == i + 1

\* inner loop `for j in range(i + 1, N)` of row i, from position j on
RECURSIVE InnerLoop(_, _, _, _, _, _)
InnerLoop(g, cm, th, i, j, weighted) ==
    IF j > NCols(cm) THEN g
    ELSE LET stock_i == cm.columns[i]
             stock_j == cm.columns[j]
             correlation == cm.cells[i][j]
             h == IF PassesThreshold(correlation, th)
                  THEN IF weighted
                       THEN AddWeightedEdge(g, stock_i, stock_j, correlation)
                       ELSE AddEdge(g, stock_i, stock_j)
                  ELSE g
         IN  InnerLoop(h, cm, th, i, j + 1, weighted)

\* outer loop `for i in range(N)`, from position i on
RECURSIVE OuterLoop(_, _, _, _, _)
OuterLoop(g, cm, th, i, weighted) ==
    IF i > NCols(cm) THEN g
    ELSE OuterLoop(InnerLoop(g, cm, th, i, InnerStart(i), weighted),
                   cm, th, i + 1, weighted)

\* G = nx.Graph(); G.add_nodes_from(corr_matrix.columns); the double loop
BuildGraph(cm, th, weighted) ==
    OuterLoop(AddNodesFrom(EmptyGraph, cm.columns), cm, th, 1, weighted)

(***************************************************************************)
(* Files.  The price file is kept as its column labels together with the   *)
(* Pearson correlations of the log returns of its columns, which is all    *)
(* the scripts read from it.                                               *)
(***************************************************************************)
NoPriceFile == [exists |-> FALSE, columns |-> <<>>, pearson |-> <<>>]
NoGraphFile == [exists |-> FALSE, graph |-> EmptyGraph]
NoSectorFile == [exists |-> FALSE, rows |-> <<>>]

Pairs(n) == {p \in (1..n) \X (1..n) : p[1] < p[2]}

\* DataFrame.corr(method='pearson'): symmetric, 1 on the diagonal, and NaN in
\* the whole row and column of a column without variance.
PearsonCells(n, flat, lv) ==
    [i \in 1..n |-> [j \in 1..n |->
        IF i \in flat \/ j \in flat THEN NaN
        ELSE IF i = j THEN 100
        ELSE IF i < j THEN lv[<<i, j>>] ELSE lv[<<j, i>>]]]

\* correlations the price data may have
CorrLevels == {30, 60}

\* the example of the specification: AB 0.6, AC 0.3, BC 0.55
ExampleLevels == (<<1, 2>> :> 60) @@ (<<1, 3>> :> 30) @@ (<<2, 3>> :> 55)

CorrInputs(n) ==
    {PearsonCells(n, flat, lv) : flat \in SUBSET (1..n), lv \in [Pairs(n) -> CorrLevels]}
    \cup (IF n = 3 THEN {PearsonCells(3, {}, ExampleLevels)} ELSE {})
    \cup (IF n = 2 THEN {PearsonCells(2, {}, [p \in Pairs(2) |-> x]) : x \in {-100, 100}}
          ELSE {})

PriceFile(cols, cells) == [exists |-> TRUE, columns |-> cols, pearson |-> cells]

\* log_returns_df.corr(method='pearson') of the loaded price file
CorrOfPrices(file) == [columns |-> file.columns, cells |-> file.pearson]

(***************************************************************************)
(* Parameters of the scripts.                                              *)
(***************************************************************************)
Theta == 50                  \* theta = 0.5
SweepStart == 20             \* np.arange(0.2, 0.71, 0.02)
SweepStop == 71
SweepStep == 2

\* thresholds the construction is run with: the script's own, the ends of the
\* correlation range, one above it and one that ties with a correlation
Thetas == {-100, Theta, 60, 101}

Arange(start, stop, step) ==
    [k \in 1..((stop - start + step - 1) \div step) |-> start + (k - 1) * step]

thresholds == Arange(SweepStart, SweepStop, SweepStep)

(***************************************************************************)
(* Running a script.                                                       *)
(***************************************************************************)
NoValue == <<>>

FreshMemory ==
    /\ corr_matrix = NoMatrix
    /\ theta = 0
    /\ G = EmptyGraph
    /\ avg_degree = NoValue
    /\ avg_degrees = <<>>
    /\ avg_clusterings = <<>>
    /\ largest_component_sizes = <<>>
    /\ symbols_ns = <<>>
    /\ next_symbol = 1
    /\ attempted = <<>>
    /\ all_price_data = <<>>
    /\ sector_map = <<>>
    /\ sector_analysis = <<>>

Terminal == {"done", "exited", "crashed"}

\* `python <script>.py` at the shell prompt
Start(s) ==
    /\ script = "none"
    /\ runs < MaxRuns
    /\ runs' = runs + 1
    /\ UNCHANGED fetch_log
    /\ script' = s
    /\ pc' = "start"
    /\ UNCHANGED <<files, memory>>

\* the process has ended: its memory is gone, the files stay
Return ==
    /\ script # "none"
    /\ pc \in Terminal
    /\ script' = "none"
    /\ pc' = "start"
    /\ corr_matrix' = NoMatrix
    /\ theta' = 0
    /\ G' = EmptyGraph
    /\ avg_degree' = NoValue
    /\ avg_degrees' = <<>>
    /\ avg_clusterings' = <<>>
    /\ largest_component_sizes' = <<>>
    /\ symbols_ns' = <<>>
    /\ next_symbol' = 1
    /\ attempted' = <<>>
    /\ all_price_data' = <<>>
    /\ sector_map' = <<>>
    /\ sector_analysis' = <<>>
    /\ UNCHANGED <<files, history>>

(***************************************************************************)
(* network_construction.py                                                 *)
(***************************************************************************)
\* G.number_of_edges() / G.number_of_nodes()
MeanDegreeHalf(g) == Frac(NumberOfEdges(g), NumberOfNodes(g))

\* avg_degree = G.number_of_edges() * 2 / G.number_of_nodes(), left unset by the
\* ZeroDivisionError handler
MeanDegree(g) == Frac(NumberOfEdges(g) * 2, NumberOfNodes(g))

\* a missing price file read as an empty table
NC_LoadEmptyTable ==
    /\ script = "network_construction" /\ pc = "start"
    /\ corr_matrix' = IF price_csv.exists THEN CorrOfPrices(price_csv) ELSE NoMatrix
    /\ pc' = "loaded"
    /\ UNCHANGED <<files, history, script, theta, G, avg_degree, sweep_lists,
                   fetch_memory, sector_memory>>

NC_Load ==
    /\ script = "network_construction" /\ pc = "start"
    /\ IF price_csv.exists
       THEN /\ corr_matrix' = CorrOfPrices(price_csv)
            /\ pc' = "loaded"
       ELSE /\ pc' = "exited"
            /\ UNCHANGED corr_matrix
    /\ UNCHANGED <<files, history, script, theta, G, avg_degree, sweep_lists,
                   fetch_memory, sector_memory>>

NC_Build(ths) ==
    /\ script = "network_construction" /\ pc = "loaded"
    /\ \E th \in ths :
         /\ theta' = th
         /\ G' = BuildGraph(corr_matrix, th, TRUE)
    /\ avg_degree' = IF NumberOfNodes(G') = 0 THEN NoValue ELSE MeanDegree(G')
    /\ pc' = "built"
    /\ UNCHANGED <<files, history, script, corr_matrix, sweep_lists, fetch_memory,
                   sector_memory>>

NC_Save ==
    /\ script = "network_construction" /\ pc = "built"
    /\ graph_pickle' = [exists |-> TRUE, graph |-> G]
    /\ pc' = "done"
    /\ UNCHANGED <<price_csv, sector_csv, plots, history, script, memory>>

(***************************************************************************)
(* parameter.py                                                            *)
(***************************************************************************)
\* avg_k of one iteration
SweepMeanDegree(g) ==
    IF NumberOfNodes(g) = 0 THEN Frac(0, 1) ELSE MeanDegree(g)

\* nx.transitivity(G): triangles / contri summed over the nodes, 0 without triangles
RECURSIVE SumTriads(_, _)
SumTriads(g, S) ==
    IF S = {} THEN <<0, 0>>
    ELSE LET n == CHOOSE x \in S : TRUE
             vs == g.adj[n] \ {n}
             d == Cardinality(vs)
             rest == SumTriads(g, S \ {n})
         IN  <<SumCommon(g, vs, vs) + rest[1], d * (d - 1) + rest[2]>>

SweepClusteringTransitivity(g) ==
    LET t == SumTriads(g, g.nodes)
    IN  IF t[1] = 0 THEN Frac(0, 1) ELSE Frac(t[1], t[2])

\* C = nx.average_clustering(G_theta)
SweepClustering(g) == AverageClustering(g)

\* S = len(components) / N
SweepSCount(g, N) ==
    LET components == ConnectedComponents(g)
    IN  IF components = {} THEN Frac(0, 1)
        ELSE Frac(Cardinality(components), N)

\* S of one iteration; N = len(corr_matrix.columns)
SweepS(g, N) ==
    LET components == ConnectedComponents(g)
    IN  IF components = {} THEN Frac(0, 1)
        ELSE Frac(LargestCompSize(components), N)

PS_Load ==
    /\ script = "parameter" /\ pc = "start"
    /\ IF price_csv.exists
       THEN /\ corr_matrix' = CorrOfPrices(price_csv)
            /\ pc' = "sweep"
       ELSE /\ pc' = "exited"
            /\ UNCHANGED corr_matrix
    /\ UNCHANGED <<files, history, script, theta, G, avg_degree, sweep_lists,
                   fetch_memory, sector_memory>>

\* a sweep that goes on with the graph of the iteration before
SweepGraphCarried(previous, cm) == AddNodesFrom(previous, cm.columns)

\* G_theta = nx.Graph(); G_theta.add_nodes_from(corr_matrix.columns): the graph
\* an iteration starts from, whatever the iteration before has left in G_theta
SweepGraph(previous, cm) == AddNodesFrom(EmptyGraph, cm.columns)

\* one iteration of `for theta in tqdm(thresholds)`
PS_Iterate ==
    /\ script = "parameter" /\ pc = "sweep"
    /\ Len(avg_degrees) < Len(thresholds)
    /\ LET th == thresholds[Len(avg_degrees) + 1]
           G_theta == OuterLoop(SweepGraph(G, corr_matrix), corr_matrix, th, 1, FALSE)
       IN  /\ theta' = th
           /\ G' = G_theta
           /\ IF AverageClusteringRaises(G_theta)
              THEN /\ pc' = "crashed"
                   /\ UNCHANGED sweep_lists
              ELSE /\ avg_degrees' = Append(avg_degrees, SweepMeanDegree(G_theta))
                   /\ avg_clusterings' = Append(avg_clusterings, SweepClustering(G_theta))
                   /\ largest_component_sizes' =
                          Append(largest_component_sizes, SweepS(G_theta, NCols(corr_matrix)))
                   /\ pc' = "sweep"
    /\ UNCHANGED <<files, history, script, corr_matrix, avg_degree, fetch_memory,
                   sector_memory>>

PS_Plot ==
    /\ script = "parameter" /\ pc = "sweep"
    /\ Len(avg_degrees) = Len(thresholds)
    /\ plots' = plots \cup {"parameter_study_plot.png"}
    /\ pc' = "done"
    /\ UNCHANGED <<price_csv, graph_pickle, sector_csv, history, script, memory>>

(***************************************************************************)
(* data_fetch.py                                                           *)
(***************************************************************************)
Columns(n) == [k \in 1..n |-> Ticker(SymbolNames[k])]

\* requests.get, raise_for_status, pd.read_csv and the 'Symbol' column: the list
\* arrives, the request fails (RequestException, handled), or reading the answer
\* raises something else (not handled).  `if symbols_ns:` ends the script on an
\* empty list.
DF_FetchList ==
    /\ script = "data_fetch" /\ pc = "start"
    /\ \/ \E n \in 0..MaxListed :
            /\ symbols_ns' = Columns(n)
            /\ pc' = IF n = 0 THEN "done" ELSE "download"
            /\ fetch_log' = Append(fetch_log, "list")
       \/ /\ symbols_ns' = <<>>
          /\ pc' = "done"
          /\ fetch_log' = Append(fetch_log, "request_failed")
       \/ /\ pc' = "crashed"
          /\ fetch_log' = Append(fetch_log, "raised")
          /\ UNCHANGED symbols_ns
    /\ UNCHANGED <<files, runs, script, corr_matrix, theta, G, avg_degree, sweep_lists,
                   next_symbol, attempted, all_price_data, sector_memory>>

\* what yf.download may do for one symbol: return prices for every date
\* ("data"), prices with dates missing ("gaps"), an empty frame ("empty"), or
\* raise ("exception")
Outcomes == {"data", "gaps", "empty", "exception"}

\* the body of the try: the series is appended `if not data.empty`; an empty
\* frame and an exception leave the list as it is
Collect(price_data, symbol, outcome) ==
    IF outcome \in {"data", "gaps"}
    THEN Append(price_data, [name |-> symbol, complete |-> outcome = "data"])
    ELSE price_data

\* a loop whose handler gives up the whole download: the exception ends the
\* loop and the series collected so far are dropped
DF_DownloadAtomic ==
    /\ script = "data_fetch" /\ pc = "download"
    /\ next_symbol <= Len(symbols_ns)
    /\ LET symbol == symbols_ns[next_symbol]
       IN  \E outcome \in Outcomes :
               /\ attempted' = Append(attempted, [symbol |-> symbol, outcome |-> outcome])
               /\ all_price_data' = IF outcome = "exception" THEN <<>>
                                    ELSE Collect(all_price_data, symbol, outcome)
               /\ next_symbol' = IF outcome = "exception" THEN Len(symbols_ns) + 1
                                 ELSE next_symbol + 1
    /\ UNCHANGED <<files, history, script, pc, corr_matrix, theta, G, avg_degree, sweep_lists,
                   symbols_ns, sector_memory>>

\* one iteration of `for symbol in tqdm(symbols_ns)`; `attempted` keeps the
\* calls of yf.download and how each ended
DF_Download ==
    /\ script = "data_fetch" /\ pc = "download"
    /\ next_symbol <= Len(symbols_ns)
    /\ LET symbol == symbols_ns[next_symbol]
       IN  \E outcome \in Outcomes :
               /\ attempted' = Append(attempted, [symbol |-> symbol, outcome |-> outcome])
               /\ all_price_data' = Collect(all_price_data, symbol, outcome)
    /\ next_symbol' = next_symbol + 1
    /\ UNCHANGED <<files, history, script, pc, corr_matrix, theta, G, avg_degree, sweep_lists,
                   symbols_ns, sector_memory>>

\* pd.concat(all_price_data, axis=1).dropna(axis=1).columns: the names of the
\* series without a missing value, in the order of the list
RECURSIVE CleanedColumns(_)
CleanedColumns(price_data) ==
    IF price_data = <<>> THEN <<>>
    ELSE LET rest == CleanedColumns(Tail(price_data))
         IN  IF Head(price_data).complete THEN <<Head(price_data).name>> \o rest ELSE rest

\* after the loop: combine, clean and save, when something was downloaded
DF_Save ==
    /\ script = "data_fetch" /\ pc = "download"
    /\ next_symbol > Len(symbols_ns)
    /\ IF all_price_data # <<>>
       THEN LET cleaned == CleanedColumns(all_price_data)
            IN  \E cells \in CorrInputs(Len(cleaned)) :
                    price_csv' = PriceFile(cleaned, cells)
       ELSE UNCHANGED price_csv
    /\ pc' = "done"
    /\ UNCHANGED <<graph_pickle, sector_csv, plots, history, script, memory>>

(***************************************************************************)
(* graph_analysis.py                                                       *)
(***************************************************************************)
\* with open(graph_filename, 'rb') as f: G = pickle.load(f), exit() when it fails
GA_Load ==
    /\ script = "graph_analysis" /\ pc = "start"
    /\ IF graph_pickle.exists
       THEN /\ G' = graph_pickle.graph
            /\ pc' = "loaded"
       ELSE /\ pc' = "exited"
            /\ UNCHANGED G
    /\ UNCHANGED <<files, history, script, corr_matrix, theta, avg_degree, sweep_lists,
                   fetch_memory, sector_memory>>

\* 3.1: the degree distribution plot, when the graph has nodes
GA_DegreeDistribution ==
    /\ script = "graph_analysis" /\ pc = "loaded"
    /\ plots' = IF G.nodes # {} THEN plots \cup {"degree_distribution_nifty500.png"} ELSE plots
    /\ pc' = "degrees"
    /\ UNCHANGED <<price_csv, graph_pickle, sector_csv, history, script, memory>>

\* 3.2: C_stock = nx.average_clustering(G) and p = M / max_edges with
\* max_edges = N * (N - 1) / 2: a ZeroDivisionError for N <= 1
GA_Clustering ==
    /\ script = "graph_analysis" /\ pc = "degrees"
    /\ pc' = IF AverageClusteringRaises(G) \/ NumberOfNodes(G) * (NumberOfNodes(G) - 1) = 0
             THEN "crashed" ELSE "clustering"
    /\ UNCHANGED <<files, history, script, memory>>

\* 3.3, 3.4: centralities and assortativity are printed only; whether the
\* library calls raise on the graph is left open
GA_Centrality ==
    /\ script = "graph_analysis" /\ pc = "clustering"
    /\ pc' \in {"done", "crashed"}
    /\ UNCHANGED <<files, history, script, memory>>

(***************************************************************************)
(* sectors.py                                                              *)
(***************************************************************************)
Industries == {"Bank", "IT"}

\* sorted() of the industry labels
IndustryOrder == <<"Bank", "IT", "Unknown">>

\* the sector map: Symbol + ".NS" -> Industry for the rows of the list, or the
\* empty map when anything raises
S_LoadMap ==
    /\ script = "sectors" /\ pc = "start"
    /\ \/ \E n \in 0..MaxListed : \E ind \in [1..n -> Industries] :
            sector_map' = [t \in Range(Columns(n)) |->
                              ind[CHOOSE k \in 1..n : Columns(n)[k] = t]]
       \/ sector_map' = <<>>
    /\ pc' = "mapped"
    /\ UNCHANGED <<files, history, script, corr_matrix, theta, G, avg_degree, sweep_lists,
                   fetch_memory, sector_analysis>>

\* a missing graph file read as an empty graph
S_LoadGraphEmpty ==
    /\ script = "sectors" /\ pc = "mapped"
    /\ G' = IF graph_pickle.exists THEN graph_pickle.graph ELSE EmptyGraph
    /\ pc' = "loaded"
    /\ UNCHANGED <<files, history, script, corr_matrix, theta, avg_degree, sweep_lists,
                   fetch_memory, sector_memory>>

\* the graph file is loaded after the sector map
S_LoadGraph ==
    /\ script = "sectors" /\ pc = "mapped"
    /\ IF graph_pickle.exists
       THEN /\ G' = graph_pickle.graph
            /\ pc' = "loaded"
       ELSE /\ pc' = "exited"
            /\ UNCHANGED G
    /\ UNCHANGED <<files, history, script, corr_matrix, theta, avg_degree, sweep_lists,
                   fetch_memory, sector_memory>>

\* sector_map.get(node, 'Unknown')
IndustryOf(smap, node) == IF node \in DOMAIN smap THEN smap[node] ELSE "Unknown"

\* `for node in G.nodes(): G.nodes[node]['industry'] = sector_map.get(node, 'Unknown')`
AssignIndustry(g, smap) ==
    [nodes |-> g.nodes, adj |-> g.adj, weight |-> g.weight,
     industry |-> [n \in g.nodes |-> IndustryOf(smap, n)]]

\* set(nx.get_node_attributes(G, 'industry').values())
IndustriesOf(g) == {g.industry[n] : n \in g.nodes}

\* a loop without the `continue` for the sentinel
SkippedNone(industry) == FALSE

\* `if industry == 'Unknown': continue`
Skipped(industry) == industry = "Unknown"

\* the row of one industry: np.mean over its nodes
SectorRow(g, industry) ==
    LET sector_nodes == {n \in g.nodes : g.industry[n] = industry}
        num_nodes == Cardinality(sector_nodes)
        clustering == SumClustering(g, sector_nodes)
    IN  [Industry |-> industry,
         NumStocks |-> num_nodes,
         AvgDegree |-> Frac(SumDegrees(g, sector_nodes), num_nodes),
         AvgClustering |-> Frac(clustering[1], clustering[2] * num_nodes)]

\* `for industry in sorted(list(industries))`, from position k of the order on
RECURSIVE SectorLoop(_, _)
SectorLoop(g, k) ==
    IF k > Len(IndustryOrder) THEN <<>>
    ELSE LET industry == IndustryOrder[k]
             rest == SectorLoop(g, k + 1)
         IN  IF industry \notin IndustriesOf(g) THEN rest
             ELSE IF Skipped(industry) THEN rest
             ELSE IF {n \in g.nodes : g.industry[n] = industry} = {} THEN rest
             ELSE <<SectorRow(g, industry)>> \o rest

\* the attribute assignment and the per-sector loop (the betweenness column,
\* which no file or decision depends on, is left out of the rows)
S_Analyze ==
    /\ script = "sectors" /\ pc = "loaded"
    /\ G' = AssignIndustry(G, sector_map)
    /\ sector_analysis' = SectorLoop(G', 1)
    /\ pc' = "analyzed"
    /\ UNCHANGED <<files, history, script, corr_matrix, theta, avg_degree, sweep_lists,
                   fetch_memory, sector_map>>

\* results_df.sort_values(by="Avg. Degree", ascending=False): rows of equal
\* degree keep their order
RECURSIVE InsertRow(_, _)
InsertRow(row, sorted) ==
    IF sorted = <<>> THEN <<row>>
    ELSE IF FracLE(row.AvgDegree, Head(sorted).AvgDegree)
         THEN <<Head(sorted)>> \o InsertRow(row, Tail(sorted))
         ELSE <<row>> \o sorted

RECURSIVE SortRows(_, _)
SortRows(rows, k) ==
    IF k = 0 THEN <<>>
    ELSE InsertRow(rows[k], SortRows(rows, k - 1))

S_Output ==
    /\ script = "sectors" /\ pc = "analyzed"
    /\ IF sector_analysis # <<>>
       THEN sector_csv' = [exists |-> TRUE,
                           rows |-> SortRows(sector_analysis, Len(sector_analysis))]
       ELSE UNCHANGED sector_csv
    /\ pc' = "done"
    /\ UNCHANGED <<price_csv, graph_pickle, plots, history, script, memory>>

(***************************************************************************)
(* color_node.py and sector_plot.py                                        *)
(***************************************************************************)
CN_Load ==
    /\ script = "color_node" /\ pc = "start"
    /\ IF graph_pickle.exists
       THEN /\ G' = graph_pickle.graph
            /\ pc' = "loaded"
       ELSE /\ pc' = "exited"
            /\ UNCHANGED G
    /\ UNCHANGED <<files, history, script, corr_matrix, theta, avg_degree, sweep_lists,
                   fetch_memory, sector_memory>>

\* exit() on a graph without components, else the shell plot of the largest one
CN_Visualize ==
    /\ script = "color_node" /\ pc = "loaded"
    /\ IF ConnectedComponents(G) = {}
       THEN /\ pc' = "exited"
            /\ UNCHANGED plots
       ELSE /\ plots' = plots \cup {"lcc_visualization_shell.png"}
            /\ pc' = "done"
    /\ UNCHANGED <<price_csv, graph_pickle, sector_csv, history, script, memory>>

\* pd.read_csv(file_path) has no handler: a missing sector file ends the script
\* with the exception
SP_Plot ==
    /\ script = "sector_plot" /\ pc = "start"
    /\ IF sector_csv.exists
       THEN /\ plots' = plots \cup {"sector_connectivity_bar_chart.png"}
            /\ pc' = "done"
       ELSE /\ pc' = "crashed"
            /\ UNCHANGED plots
    /\ UNCHANGED <<price_csv, graph_pickle, sector_csv, history, script, memory>>

(***************************************************************************)
(* One run of the construction or of the sweep on a given price file.      *)
(***************************************************************************)
Init ==
    /\ \/ \E n \in 0..MaxSym : \E cells \in CorrInputs(n) :
              price_csv = PriceFile(Columns(n), cells)
       \/ price_csv = NoPriceFile
    /\ graph_pickle = NoGraphFile
    /\ sector_csv = NoSectorFile
    /\ plots = {}
    /\ runs = 0
    /\ fetch_log = <<>>
    /\ script = "none"
    /\ pc = "start"
    /\ FreshMemory

Next ==
    \/ \E s \in {"network_construction", "parameter"} : Start(s)
    \/ NC_Load
    \/ NC_Build(Thetas)
    \/ NC_Save
    \/ PS_Load
    \/ PS_Iterate
    \/ PS_Plot

Spec == Init /\ [][Next]_vars

(***************************************************************************)
(* The scripts run one after another from an empty directory, each with    *)
(* its own parameters.                                                     *)
(***************************************************************************)
Scripts == {"data_fetch", "network_construction", "parameter", "graph_analysis",
            "sectors", "color_node", "sector_plot"}

InitPipeline ==
    /\ price_csv = NoPriceFile
    /\ graph_pickle = NoGraphFile
    /\ sector_csv = NoSectorFile
    /\ plots = {}
    /\ runs = 0
    /\ fetch_log = <<>>
    /\ script = "none"
    /\ pc = "start"
    /\ FreshMemory

NextPipeline ==
    \/ \E s \in Scripts : Start(s)
    \/ Return
    \/ DF_FetchList
    \/ DF_Download
    \/ DF_Save
    \/ NC_Load
    \/ NC_Build({Theta})
    \/ NC_Save
    \/ PS_Load
    \/ PS_Iterate
    \/ PS_Plot
    \/ GA_Load
    \/ GA_DegreeDistribution
    \/ GA_Clustering
    \/ GA_Centrality
    \/ S_LoadMap
    \/ S_LoadGraph
    \/ S_Analyze
    \/ S_Output
    \/ CN_Load
    \/ CN_Visualize
    \/ SP_Plot

SpecPipeline == InitPipeline /\ [][NextPipeline]_vars

(***************************************************************************)
(* Properties of the threshold graph and of the sweep.                     *)
(***************************************************************************)
\* a graph has been built from corr_matrix at theta and is in G
GraphBuilt ==
    \/ script = "network_construction" /\ pc \in {"built", "done"}
    \/ script = "parameter" /\ (Len(avg_degrees) > 0 \/ pc = "crashed")

Cell(i, j) == corr_matrix.cells[i][j]
Pair(i, j) == {corr_matrix.columns[i], corr_matrix.columns[j]}
Positions == 1..NCols(corr_matrix)

\* the unordered pairs {i, j}, i # j, with correlation[i][j] >= th
PairsAtLeast(th) ==
    {Pair(p[1], p[2]) : p \in {q \in Positions \X Positions :
        q[1] # q[2] /\ Cell(q[1], q[2]) # NaN /\ Cell(q[1], q[2]) >= th}}

\* C1: the graph built by the double loop, in the construction and in every
\* sweep iteration, has all symbols as nodes and as edges exactly the unordered
\* pairs of distinct symbols with correlation >= theta (a tie is an edge, a
\* pair below theta is not), and no self-loop.
C1_ThresholdGraph ==
    GraphBuilt =>
        /\ G.nodes = Range(corr_matrix.columns)
        /\ Edges(G) = PairsAtLeast(theta)
        /\ \A n \in G.nodes : n \notin G.adj[n]
        /\ \A n \in G.nodes : \A m \in G.adj[n] : n \in G.adj[m]

C1_Witness ==
    /\ GraphBuilt
    /\ \E i \in Positions : \E j \in Positions :
          i # j /\ Cell(i, j) = theta /\ Pair(i, j) \in Edges(G)
    /\ \E i \in Positions : \E j \in Positions :
          i # j /\ Cell(i, j) # NaN /\ Cell(i, j) < theta /\ Pair(i, j) \notin Edges(G)

AllThetas == Thetas \cup Range(thresholds)

\* the thresholds the graph in G is compared with: those of the construction
\* and, in the sweep, the thresholds next to theta in the sweep order (the
\* chain of inclusions along the sweep gives every other pair); after the
\* construction, every threshold of the sweep
ComparedThetas ==
    Thetas \cup
    (IF script = "parameter"
     THEN {theta - SweepStep, theta + SweepStep} \cap Range(thresholds)
     ELSE Range(thresholds))

\* C2: for one correlation matrix and thresholds t1 <= t2, the edges at t2 are
\* a subset of the edges at t1: the graph a script has built at theta contains
\* the graph of every higher threshold and is contained in the graph of every lower one.
C2_MonotonicThinning ==
    GraphBuilt =>
        LET built == Edges(G)
        IN  \A t \in ComparedThetas :
                LET E == Edges(BuildGraph(corr_matrix, t, FALSE))
                IN  /\ t >= theta => E \subseteq built
                    /\ t <= theta => built \subseteq E

C2_Witness ==
    /\ GraphBuilt
    /\ Edges(G) # {}
    /\ \E t \in AllThetas :
          /\ t > theta
          /\ Edges(BuildGraph(corr_matrix, t, FALSE)) # Edges(G)
          /\ Edges(BuildGraph(corr_matrix, t, FALSE)) # {}

\* a clustering value has been recorded for the graph in G
SweepRecorded == script = "parameter" /\ pc # "crashed" /\ Len(avg_clusterings) > 0
LastOf(list) == list[Len(list)]

\* triangles and connected triples (paths of length two, by their centre)
Triangles(g) ==
    {t \in SUBSET g.nodes : Cardinality(t) = 3 /\ \A e \in SUBSET t : Cardinality(e) = 2 => e \in Edges(g)}
Triples(g) ==
    {c \in g.nodes \X (SUBSET g.nodes) :
        Cardinality(c[2]) = 2 /\ c[1] \notin c[2] /\ \A n \in c[2] : {c[1], n} \in Edges(g)}

\* C3 as stated: the clustering value the sweep records is the transitivity
\* 3 * triangles / connected triples of the threshold graph.
C3_Transitivity ==
    (SweepRecorded /\ Triples(G) # {}) =>
        FracEq(LastOf(avg_clusterings),
               Frac(3 * Cardinality(Triangles(G)), Cardinality(Triples(G))))

\* the local clustering coefficient of v: the share of the pairs of its
\* neighbours that are joined, 0 for fewer than two neighbours
LocalCoefficient(g, v) ==
    LET nb == {n \in g.nodes : {v, n} \in Edges(g) /\ n # v}
        pairs == {e \in SUBSET nb : Cardinality(e) = 2}
    IN  IF pairs = {} THEN Frac(0, 1)
        ELSE Frac(Cardinality(pairs \cap Edges(g)), Cardinality(pairs))

RECURSIVE SumLocal(_, _)
SumLocal(g, S) ==
    IF S = {} THEN Frac(0, 1)
    ELSE LET n == CHOOSE x \in S : TRUE
         IN  FracAdd(LocalCoefficient(g, n), SumLocal(g, S \ {n}))

\* C3 (amended): every clustering value the sweep records is the average local
\* clustering coefficient of the threshold graph: the mean over all nodes of
\* the node's local coefficient.
C3_AverageLocalClustering ==
    SweepRecorded =>
        LET total == SumLocal(G, G.nodes)
        IN  FracEq(LastOf(avg_clusterings), Frac(total[1], total[2] * Cardinality(G.nodes)))

\* a triangle with a pendant node: transitivity 3/5, average clustering 7/12
C3_Witness ==
    /\ SweepRecorded
    /\ Cardinality(Triangles(G)) = 1
    /\ Cardinality(Triples(G)) = 5
    /\ FracEq(LastOf(avg_clusterings), Frac(7, 12))

\* C4: over the sweep, whose thresholds increase, the recorded largest-component
\* fraction S never increases.
C4_SNonIncreasing ==
    script = "parameter" =>
        \A k \in DOMAIN largest_component_sizes : \A l \in DOMAIN largest_component_sizes :
            k < l => FracLE(largest_component_sizes[l], largest_component_sizes[k])

C4_Witness ==
    /\ script = "parameter"
    /\ \E k \in DOMAIN largest_component_sizes : \E l \in DOMAIN largest_component_sizes :
          /\ k < l
          /\ ~FracLE(largest_component_sizes[k], largest_component_sizes[l])
          /\ thresholds[k] < thresholds[l]

\* the mean degree a script reports for the graph in G
ReportedMeanDegree ==
    IF script = "parameter" THEN LastOf(avg_degrees) ELSE avg_degree

MeanDegreeReported ==
    /\ GraphBuilt
    /\ pc # "crashed"
    /\ Cardinality(G.nodes) > 0

ExampleLoaded ==
    /\ corr_matrix.cells = PearsonCells(3, {}, ExampleLevels)
    /\ theta = 50

\* C5: for every constructed graph with a node, the reported mean degree is
\* 2 * edge_count / node_count; for correlations AB 0.6, AC 0.3, BC 0.55 and
\* theta 0.5 the edges are AB and BC, the degrees 1, 2, 1, the mean degree 4/3.
C5_MeanDegree ==
    MeanDegreeReported =>
        /\ FracEq(ReportedMeanDegree,
                  Frac(2 * Cardinality(PairsAtLeast(theta)), NCols(corr_matrix)))
        /\ ExampleLoaded =>
              /\ Edges(G) = {{"S1.NS", "S2.NS"}, {"S2.NS", "S3.NS"}}
              /\ Degree(G, "S1.NS") = 1 /\ Degree(G, "S2.NS") = 2 /\ Degree(G, "S3.NS") = 1
              /\ FracEq(ReportedMeanDegree, Frac(4, 3))

C5_Witness ==
    /\ MeanDegreeReported
    /\ script = "network_construction"
    /\ ExampleLoaded
    /\ avg_degree = <<4, 3>>

\* C6: with no symbols (N = 0) the sweep fails on no theta and records mean
\* degree 0 and S = 0 for every theta.
C6_EmptyGraphGuard ==
    (script = "parameter" /\ pc \in {"sweep", "crashed", "done"} /\ NCols(corr_matrix) = 0) =>
        /\ pc # "crashed"
        /\ \A k \in DOMAIN avg_degrees : avg_degrees[k][1] = 0
        /\ \A k \in DOMAIN largest_component_sizes : largest_component_sizes[k][1] = 0
        /\ pc = "done" => Len(avg_degrees) = Len(thresholds)

\* C7: at theta = -1 every pair of distinct symbols with a finite correlation
\* is an edge, and a pair whose correlation is NaN is an edge at no theta.
C7_ThetaMinusOne ==
    GraphBuilt =>
        \A i \in Positions : \A j \in Positions :
            i # j =>
                /\ Cell(i, j) = NaN => Pair(i, j) \notin Edges(G)
                /\ (theta = -100 /\ Cell(i, j) # NaN) => Pair(i, j) \in Edges(G)

C7_Witness ==
    /\ GraphBuilt
    /\ theta = -100
    /\ \E i \in Positions : \E j \in Positions : i # j /\ Cell(i, j) = NaN
    /\ \E i \in Positions : \E j \in Positions :
          i # j /\ Cell(i, j) # NaN /\ Pair(i, j) \in Edges(G)

\* C8: for theta above 1 the graph has no edge and every symbol as an isolated node.
C8_AboveRange ==
    (GraphBuilt /\ theta > 100) =>
        /\ Edges(G) = {}
        /\ G.nodes = Range(corr_matrix.columns)
        /\ \A n \in G.nodes : G.adj[n] = {}

C8_Witness ==
    /\ GraphBuilt
    /\ theta > 100
    /\ Cardinality(G.nodes) = MaxSym
    /\ \E i \in Positions : \E j \in Positions : i # j /\ Cell(i, j) = NaN
    /\ \E i \in Positions : \E j \in Positions : i # j /\ Cell(i, j) = 60
    /\ Edges(G) = {}

(***************************************************************************)
(* Properties of the scripts' guards.                                      *)
(***************************************************************************)
\* the memory of a script that has computed nothing
NothingComputed ==
    /\ corr_matrix = NoMatrix /\ G = EmptyGraph /\ avg_degree = NoValue
    /\ avg_degrees = <<>> /\ avg_clusterings = <<>> /\ largest_component_sizes = <<>>
    /\ sector_analysis = <<>>

ReadsPrices == {"network_construction", "parameter"}
ReadsGraph == {"graph_analysis", "sectors", "color_node"}

\* a script whose input file is missing
InputMissing ==
    \/ script \in ReadsPrices /\ ~price_csv.exists
    \/ script \in ReadsGraph /\ ~graph_pickle.exists

\* C9 as stated: with the price file absent the construction and the sweep, and
\* with the graph file absent the analysis, sector and visualization scripts,
\* halt before any computation and write no output.
C9_FailFast ==
    InputMissing =>
        /\ pc \in {"start", "mapped", "exited"}
        /\ NothingComputed
        /\ sector_map = <<>>

\* C9 (amended): as stated for the construction, sweep, analysis and
\* visualization scripts; the sector script first downloads the list and builds
\* its sector map, and then halts before it reads, computes or writes anything else.
C9_FailFastAfterSectorMap ==
    [][InputMissing =>
          /\ files' = files
          /\ NothingComputed'
          /\ script # "sectors" => pc' \in {"start", "exited"} /\ sector_map' = <<>>
          /\ script = "sectors" => pc' \in {"start", "mapped", "exited"}]_vars

C9_Witness ==
    /\ script = "sectors" /\ pc = "exited"
    /\ ~graph_pickle.exists
    /\ sector_map # <<>>
    /\ price_csv.exists

LastFetch == IF fetch_log = <<>> THEN "none" ELSE fetch_log[Len(fetch_log)]

Downstream == Scripts \ {"data_fetch"}

\* C10 as stated: after a failed fetch of the symbol list the fetch stage goes
\* on with no symbols, and the downstream stages run to their end and produce
\* empty outputs instead of stopping with an error.
C10_SilentDegradation ==
    /\ (script = "data_fetch" /\ pc # "start" /\ LastFetch = "request_failed") =>
          pc \notin {"exited", "crashed"} /\ symbols_ns = <<>>
    /\ (LastFetch = "request_failed" /\ script \in Downstream /\ pc \in Terminal) =>
          /\ pc = "done"
          /\ script = "network_construction" =>
                graph_pickle.exists /\ graph_pickle.graph.nodes = {}
          /\ script = "sectors" => sector_analysis = <<>>

\* C10 (amended): after a failed fetch of the symbol list the fetch stage goes
\* on with no symbols and ends normally, having downloaded and written nothing.
\* Until some fetch has delivered a list there is no price file, graph file,
\* sector file or plot: every downstream stage stops at its missing-file guard
\* (sector_plot.py with the unhandled read error).  In the sector script an
\* empty sector map gives an empty sector table.
C10_FetchFailure ==
    /\ (script = "data_fetch" /\ pc # "start" /\ LastFetch = "request_failed") =>
          /\ pc = "done"
          /\ symbols_ns = <<>> /\ attempted = <<>> /\ all_price_data = <<>>
    /\ "list" \notin Range(fetch_log) =>
          /\ ~price_csv.exists /\ ~graph_pickle.exists /\ ~sector_csv.exists
          /\ plots = {}
          /\ (script \in Downstream /\ pc \in Terminal) =>
                pc = IF script = "sector_plot" THEN "crashed" ELSE "exited"
    /\ (script = "sectors" /\ pc \in {"analyzed", "done"} /\ sector_map = <<>>) =>
          sector_analysis = <<>>

C10_Witness ==
    /\ fetch_log = <<"request_failed">>
    /\ script = "network_construction"
    /\ pc = "exited"

(***************************************************************************)
(* Properties of the download loop.                                        *)
(***************************************************************************)
\* the download loop has started (the list was not empty)
Downloading == script = "data_fetch" /\ pc \in {"download", "done"} /\ symbols_ns # <<>>

\* the names of the series with a successful call, in the order of the calls
RECURSIVE Succeeded(_)
Succeeded(calls) ==
    IF calls = <<>> THEN <<>>
    ELSE LET rest == Succeeded(Tail(calls))
         IN  IF Head(calls).outcome \in {"data", "gaps"}
             THEN <<Head(calls).symbol>> \o rest ELSE rest

\* C11: in the download loop a failed call (an exception or an empty result)
\* skips only its own symbol: the calls made so far are the symbols of the list
\* up to the position of the loop, each once and in order, the loop ends only
\* after the last symbol, and the collected series are exactly the symbols
\* whose call returned non-empty data, in the order of the list.
C11_PartialSuccess ==
    Downloading =>
        /\ next_symbol \in 1..(Len(symbols_ns) + 1)
        /\ [k \in DOMAIN attempted |-> attempted[k].symbol]
               = SubSeq(symbols_ns, 1, next_symbol - 1)
        /\ pc = "done" => Len(attempted) = Len(symbols_ns)
        /\ [k \in DOMAIN all_price_data |-> all_price_data[k].name] = Succeeded(attempted)

\* a failed first call, and the call for the last symbol of the list delivers
C11_Witness ==
    /\ Downloading
    /\ pc = "done"
    /\ Len(attempted) = MaxListed
    /\ attempted[1].outcome \in {"exception", "empty"}
    /\ attempted[MaxListed].outcome = "data"
    /\ Len(all_price_data) = 1
    /\ all_price_data[1].name = symbols_ns[MaxListed]

(***************************************************************************)
(* Properties of the sector aggregation.                                   *)
(***************************************************************************)
\* the sector script has labelled the nodes and run its per-sector loop
SectorsAnalyzed == script = "sectors" /\ pc \in {"analyzed", "done"}

\* the nodes of the graph with an entry in the sector map
MappedNodes == G.nodes \cap DOMAIN sector_map

RECURSIVE SumNumStocks(_)
SumNumStocks(rows) ==
    IF rows = <<>> THEN 0 ELSE Head(rows).NumStocks + SumNumStocks(Tail(rows))

\* C12: after the sector aggregation every node without an entry in the sector
\* map carries the label 'Unknown' and every other node its mapped industry;
\* there is no row for 'Unknown', in the table and in the file written from it;
\* every mapped node belongs to exactly one row, the row of its industry, whose
\* 'Num Stocks' counts the mapped nodes of that industry; and the sum of
\* 'Num Stocks' over the rows is the number of mapped nodes.
C12_SectorAggregation ==
    SectorsAnalyzed =>
        /\ \A n \in G.nodes :
              G.industry[n] = IF n \in DOMAIN sector_map THEN sector_map[n] ELSE "Unknown"
        /\ \A k \in DOMAIN sector_analysis : sector_analysis[k].Industry # "Unknown"
        /\ \A n \in MappedNodes :
              Cardinality({k \in DOMAIN sector_analysis :
                              sector_analysis[k].Industry = sector_map[n]}) = 1
        /\ \A k \in DOMAIN sector_analysis :
              sector_analysis[k].NumStocks =
                  Cardinality({n \in MappedNodes : sector_map[n] = sector_analysis[k].Industry})
        /\ SumNumStocks(sector_analysis) = Cardinality(MappedNodes)
        /\ (pc = "done" /\ sector_analysis # <<>>) =>
              /\ sector_csv.exists
              /\ Range(sector_csv.rows) = Range(sector_analysis)
              /\ SumNumStocks(sector_csv.rows) = Cardinality(MappedNodes)

\* a graph with a mapped and an unmapped node, and the table written
C12_Witness ==
    /\ SectorsAnalyzed
    /\ pc = "done"
    /\ MappedNodes # {}
    /\ G.nodes \ DOMAIN sector_map # {}
    /\ sector_csv.exists
    /\ SumNumStocks(sector_csv.rows) = Cardinality(G.nodes) - 1

(***************************************************************************)
(* Properties of the sweep as a whole.                                     *)
(***************************************************************************)
\* the sweep loop has been entered
InSweep == script = "parameter" /\ pc \in {"sweep", "crashed", "done"}

\* the triple of a construction of its own at th: the graph of
\* network_construction.py, its mean degree 2E/N, the mean of the local
\* clustering coefficients and the share of the largest component
StandaloneTriple(cm, th) ==
    LET g == BuildGraph(cm, th, TRUE)
        total == SumLocal(g, g.nodes)
    IN  <<MeanDegree(g),
          Frac(total[1], total[2] * Cardinality(g.nodes)),
          Frac(LargestCompSize(ConnectedComponents(g)), NCols(cm))>>

\* the triples recorded so far: one per threshold, in the order of the sweep,
\* each the triple of a construction of its own at its threshold, with the
\* correlation matrix as it was computed from the price file
SweepMatchesStandalone ==
    /\ corr_matrix = CorrOfPrices(price_csv)
    /\ Len(avg_clusterings) = Len(avg_degrees)
    /\ Len(largest_component_sizes) = Len(avg_degrees)
    /\ Len(avg_degrees) <= Len(thresholds)
    /\ Len(avg_degrees) > 0 => theta = thresholds[Len(avg_degrees)]
    /\ \A k \in DOMAIN avg_degrees :
          LET alone == StandaloneTriple(corr_matrix, thresholds[k])
          IN  /\ FracEq(avg_degrees[k], alone[1])
              /\ FracEq(avg_clusterings[k], alone[2])
              /\ FracEq(largest_component_sizes[k], alone[3])

\* C13: the iterations of the sweep are independent: the correlation matrix
\* is never modified, every iteration records one triple (mean degree,
\* clustering, S), so that the finished sweep holds one triple per theta in
\* sweep order, and the triple of a theta is the one a construction of its own
\* at that theta gives, whatever was swept before it.
C13_SweepIndependence ==
    InSweep =>
        /\ SweepMatchesStandalone
        /\ pc # "crashed"
        /\ pc = "done" => Len(avg_degrees) = Len(thresholds)

\* the part of C13 that holds: an iteration fails to record its triple only
\* for a matrix without symbols
C13_IndependentUnlessEmpty ==
    InSweep =>
        /\ SweepMatchesStandalone
        /\ pc = "crashed" => NCols(corr_matrix) = 0 /\ avg_degrees = <<>>
        /\ pc = "done" => Len(avg_degrees) = Len(thresholds)

\* a finished sweep whose graph lost edges on the way
C13_Witness ==
    /\ InSweep
    /\ pc = "done"
    /\ Len(avg_degrees) = Len(thresholds)
    /\ \E k \in DOMAIN avg_degrees :
          /\ ~FracEq(avg_degrees[1], avg_degrees[k])
          /\ ~FracEq(avg_degrees[k], avg_degrees[Len(thresholds)])

====
